---- MODULE Spec2Model ----
(***************************************************************************)
(* Model of gns3server/utils/asyncio/embed_shell.py: the EmbedShell        *)
(* command shell (help, _parse_command, run, get_commands), the telnet     *)
(* line-editing bridge CLIInputStream, the UnstopableEventLoop facade, the *)
(* StreamWriter output adapter and the three tasks of create_stdin_shell.  *)
(*                                                                         *)
(* Text is a sequence of characters and a byte string a sequence of bytes, *)
(* so that split, strip, join, replace, encode and decode are computed     *)
(* element by element as Python does. An ASCII character and its byte are  *)
(* the same one-character string; the character e-acute stands for the     *)
(* characters that utf-8 encodes as more than one byte.                    *)
(***************************************************************************)
EXTENDS Integers, Sequences, FiniteSets, TLC

VARIABLES
    shellClass,   \* class of the shell object: "EmbedShell", "Demo", "Failing"
    welcome,      \* self._welcome_message (<<>> models None and '')
    path,         \* "telnet": create_telnet_shell, "stdin": create_stdin_shell
    rbuf,         \* self._reader: bytes fed and not yet read
    reof,         \* self._reader: feed_eof() has been called
    wbuf,         \* self._writer: bytes fed, as the front-end reads them
    pc,           \* position of the run() task: "start", "read" (suspended in
                  \* readline), "failed" or "cancelled"
    exc,          \* exception that ended the run() task ("none" while alive
                  \* and when it was cancelled)
    depth,        \* number of run() frames nested inside the first one
    written,      \* history: the texts run() passed to the writer, in order
    consumed,     \* history: the lines run() got from readline(), stripped
    fedLines,     \* history: the lines the producer has fed, in order
    neof,         \* number of readline() calls answered at end of stream
    text,         \* SpecDispatch: argument of _parse_command
    res,          \* SpecDispatch: outcome of _parse_command
    cmds,         \* SpecDispatch: <<>> or <<the list get_commands() returned>>
    pending,      \* SpecBridge: bytes received from the client, not yet written
    sent,         \* SpecBridge: history of all bytes received from the client
    chunks,       \* SpecBridge: history of the chunks passed to write()
    edBuf,        \* cli.buffers[DEFAULT_BUFFER]: text of the edit buffer
    edCursor,     \* cli.buffers[DEFAULT_BUFFER]: cursor column
    edReturn,     \* cli return value: <<>> (None) or <<text>>
    bridgeErr,    \* exception raised by the last write() ("none" if none)
    hostState,    \* wrapped loop: "running", "stopped" or "closed"
    hostTicks,    \* wrapped loop: callbacks it has run
    hostJobs,     \* wrapped loop: calls forwarded by the facade
    facadeCalls,  \* facade: number of stop()/close() calls accepted
    facadeErr,    \* facade: error raised by the last call ("none" if none)
    hostReaders,  \* wrapped loop: the file descriptors it watches
    readerCalls,  \* facade: number of add_reader()/remove_reader() calls made
    tasks,        \* create_stdin_shell: state of each of the three tasks
    stdout,       \* create_stdin_shell: the text read_stdout has printed
    gather        \* create_stdin_shell: the future asyncio.gather returned

coreVars == <<shellClass, welcome, path, rbuf, reof, wbuf, pc, exc, depth,
              written, consumed, fedLines, neof>>
dispVars == <<text, res, cmds>>
bridgeVars == <<pending, sent, chunks, edBuf, edCursor, edReturn, bridgeErr>>
facadeVars == <<hostState, hostTicks, hostJobs, facadeCalls, facadeErr,
                hostReaders, readerCalls>>
stdinVars == <<tasks, stdout, gather>>
vars == <<coreVars, dispVars, bridgeVars, facadeVars, stdinVars>>

----------------------------------------------------------------------------
(* Bounds of the model *)

MaxArgs == 2        \* arguments after the command name on a dispatched line
MaxLines == 2       \* lines the producer feeds in one session
MaxEofReads == 2    \* iterations of run() observed after end of stream
MaxDepth == 1       \* nested run() frames observed
MaxBytes == 4       \* bytes one telnet client sends
MaxCalls == 4       \* calls of each kind made on the scheduler facade

----------------------------------------------------------------------------
(* Characters and texts *)

LF == "\n"
CR == "\r"
SP == " "

S_help == <<"h","e","l","p">>
S_hello == <<"h","e","l","l","o">>
S_run == <<"r","u","n">>
S_prompt == <<"p","r","o","m","p","t">>
S_reader == <<"r","e","a","d","e","r">>
S_writer == <<"w","r","i","t","e","r">>
S_get_commands == <<"g","e","t","_","c","o","m","m","a","n","d","s">>
S_parse_command == <<"_","p","a","r","s","e","_","c","o","m","m","a","n","d">>
S_loop == <<"_","l","o","o","p">>
S__reader == <<"_","r","e","a","d","e","r">>
S__writer == <<"_","w","r","i","t","e","r">>
S__prompt == <<"_","p","r","o","m","p","t">>
S_welcome_message == <<"_","w","e","l","c","o","m","e","_","m","e","s","s","a","g","e">>
S_bogus == <<"b","o","g","u","s">>
S_tutu == <<"t","u","t","u">>
S_fail == <<"f","a","i","l">>
S_qmark == <<"?">>

\* The character e-acute and the two bytes utf-8 encodes it as.
E_ACUTE == "e-acute"
B_C3 == "0xC3"
B_A9 == "0xA9"

\* text.encode(): e-acute becomes its two bytes, an ASCII character its byte.
\* The text is halved to keep the recursion shallow.
RECURSIVE utf8_encode(_)
utf8_encode(t) ==
    IF t = <<>> THEN <<>>
    ELSE IF Len(t) = 1 THEN (IF t[1] = E_ACUTE THEN <<B_C3, B_A9>> ELSE t)
    ELSE LET h == Len(t) \div 2
         IN utf8_encode(SubSeq(t, 1, h)) \o utf8_encode(SubSeq(t, h + 1, Len(t)))

\* The bytes are well-formed utf-8: every lead byte is followed by its
\* continuation byte and every continuation byte follows a lead byte.
utf8_valid(data) ==
    \A i \in 1..Len(data) :
        /\ data[i] = B_C3 => (i < Len(data) /\ data[i + 1] = B_A9)
        /\ data[i] = B_A9 => (i > 1 /\ data[i - 1] = B_C3)

is_continuation(b) == b = B_A9
not_continuation(b) == ~is_continuation(b)

\* data.decode(): strict utf-8. ok is FALSE where Python raises
\* UnicodeDecodeError; else text holds one character per encoded character.
utf8_decode(data) ==
    IF ~utf8_valid(data) THEN [ok |-> FALSE, text |-> <<>>]
    ELSE LET leads == SelectSeq(data, not_continuation)
         IN [ok |-> TRUE,
             text |-> [i \in 1..Len(leads) |->
                          IF leads[i] = B_C3 THEN E_ACUTE ELSE leads[i]]]

\* Character order of the characters command names are made of (ASCII order).
Alphabet == <<"?","_","a","b","c","d","e","f","g","h","i","j","k","l","m","n",
              "o","p","q","r","s","t","u","v","w","x","y","z">>

Ord(c) == CHOOSE i \in 1..Len(Alphabet) : Alphabet[i] = c

\* Python's str < str: lexicographic by character code.
RECURSIVE StrLess(_, _)
StrLess(a, b) ==
    IF b = <<>> THEN FALSE
    ELSE IF a = <<>> THEN TRUE
    ELSE IF Head(a) # Head(b) THEN Ord(Head(a)) < Ord(Head(b))
    ELSE StrLess(Tail(a), Tail(b))

\* Mutant: a run of spaces separates as one space does.
RECURSIVE split_collapsing(_)
split_collapsing(t) ==
    IF t = <<>> THEN << <<>> >>
    ELSE IF Head(t) = SP
    THEN IF Len(t) > 1 /\ t[2] = SP THEN split_collapsing(Tail(t))
         ELSE << <<>> >> \o split_collapsing(Tail(t))
    ELSE LET r == split_collapsing(Tail(t)) IN << <<Head(t)>> \o Head(r) >> \o Tail(r)

\* text.split(' '): cut at every single space; never returns an empty list.
RECURSIVE split(_)
split(t) ==
    IF t = <<>> THEN << <<>> >>
    ELSE IF Head(t) = SP THEN << <<>> >> \o split(Tail(t))
    ELSE LET r == split(Tail(t)) IN << <<Head(t)>> \o Head(r) >> \o Tail(r)

\* ' '.join(args)
RECURSIVE join(_)
join(args) ==
    IF args = <<>> THEN <<>>
    ELSE IF Len(args) = 1 THEN args[1]
    ELSE args[1] \o <<SP>> \o join(Tail(args))

\* text.strip('\n'): drop every leading and every trailing newline.
RECURSIVE lstrip(_)
lstrip(t) == IF t # <<>> /\ Head(t) = LF THEN lstrip(Tail(t)) ELSE t

RECURSIVE rstrip(_)
rstrip(t) ==
    IF t # <<>> /\ t[Len(t)] = LF THEN rstrip(SubSeq(t, 1, Len(t) - 1)) ELSE t

strip(t) == rstrip(lstrip(t))

\* doc.split('\n')[0]: the text before the first newline.
RECURSIVE firstLine(_)
firstLine(t) ==
    IF t = <<>> \/ Head(t) = LF THEN <<>> ELSE <<Head(t)>> \o firstLine(Tail(t))

\* name.startswith('_')
startswith_(name) == name # <<>> /\ Head(name) = "_"

----------------------------------------------------------------------------
(* The members of the shell object, as inspect.getmembers(self) sees them *)

\* inspect.getdoc of EmbedShell.help
help_doc == <<"S","h","o","w"," ","h","e","l","p">>

\* inspect.getdoc of Demo.hello
hello_doc ==
    <<"H","e","l","l","o"," ","w","o","r","l","d","\n","\n","T","h","i","s",
      " ","c","o","m","m","a","n","d"," ","a","c","c","e","p","t"," ","a","r",
      "g","u","m","e","n","t","s",":"," ","h","e","l","l","o"," ","t","u","t",
      "u"," ","w","i","l","l"," ","d","i","s","p","l","a","y"," ","t","u","t",
      "u">>

\* kind: "coro"   a generator function called as a command handler
\*       "run"    the generator function run
\*       "parse"  the generator function _parse_command
\*       "method" a plain method (get_commands)
\*       "value"  an attribute that is no callable (property values, fields)
\* doc:  inspect.getdoc(value), <<>> when there is none; the code reads it
\*       only for generator functions.
\* line: the source line of the member's definition.
Member(name, kind, doc, line) ==
    [name |-> name, kind |-> kind, doc |-> doc, line |-> line]

EmbedShell == {
    Member(S_loop, "value", <<>>, 40),
    Member(S__reader, "value", <<>>, 41),
    Member(S__writer, "value", <<>>, 42),
    Member(S__prompt, "value", <<>>, 43),
    Member(S_welcome_message, "value", <<>>, 44),
    Member(S_writer, "value", <<>>, 47),
    Member(S_reader, "value", <<>>, 55),
    Member(S_prompt, "value", <<>>, 63),
    Member(S_help, "coro", help_doc, 71),
    Member(S_parse_command, "parse", <<>>, 95),
    Member(S_run, "run", <<>>, 111),
    Member(S_get_commands, "method", <<>>, 121) }

Demo == EmbedShell \cup { Member(S_hello, "coro", hello_doc, 278) }

\* A shell as an application writes one: a subclass of EmbedShell with one
\* command, fail, whose body raises.  The class of the shell is an input of
\* the program; this one stands for every handler that does not return.
fail_doc == <<"F","a","i","l">>

Failing == EmbedShell \cup { Member(S_fail, "coro", fail_doc, 288) }

ShellClasses == {"EmbedShell", "Demo", "Failing"}

ClassMembers(cls) ==
    CASE cls = "Demo" -> Demo
      [] cls = "Failing" -> Failing
      [] OTHER -> EmbedShell

\* A set of members as the sequence sorted by name (getmembers sorts).
RECURSIVE sortByName(_)
sortByName(S) ==
    IF S = {} THEN <<>>
    ELSE LET m == CHOOSE x \in S : \A y \in S \ {x} : StrLess(x.name, y.name)
         IN <<m>> \o sortByName(S \ {m})

EmbedShell_members == sortByName(EmbedShell)
Demo_members == sortByName(Demo)
Failing_members == sortByName(Failing)

\* Mutant: the members in the order of their definitions, not sorted by name.
RECURSIVE sortByLine(_)
sortByLine(S) ==
    IF S = {} THEN <<>>
    ELSE LET m == CHOOSE x \in S : \A y \in S \ {x} : x.line < y.line
         IN <<m>> \o sortByLine(S \ {m})

getmembers_unsorted(cls) == sortByLine(ClassMembers(cls))

getmembers(cls) ==
    CASE cls = "Demo" -> Demo_members
      [] cls = "Failing" -> Failing_members
      [] OTHER -> EmbedShell_members

isgeneratorfunction(m) == m.kind \in {"coro", "run", "parse"}

----------------------------------------------------------------------------
(* EmbedShell.help *)

help_header == <<"H","e","l","p",":","\n">>

help_trailer ==
    <<"\n","h","e","l","p"," ","c","o","m","m","a","n","d"," ","f","o","r",
      " ","d","e","t","a","i","l","s"," ","a","b","o","u","t"," ","a"," ","c",
      "o","m","m","a","n","d","\n">>

\* Mutant: the test of the name against args[0] is missing.
help_skips_any_name(m, args) ==
    \/ ~isgeneratorfunction(m)
    \/ startswith_(m.name)
    \/ m.name = S_run

\* The two `continue` tests of the loop over the members.
help_skips(m, args) ==
    \/ ~isgeneratorfunction(m)
    \/ startswith_(m.name)
    \/ (args # <<>> /\ m.name # args[1])
    \/ m.name = S_run

\* Mutant: the first line of the doc also when a command is asked for.
help_entry_first_line(m, args) ==
    m.name
    \o (IF m.doc # <<>> THEN <<":", SP>> \o firstLine(m.doc) ELSE <<>>)
    \o <<LF>>

\* What one member that is not skipped adds to res.
help_entry(m, args) ==
    m.name
    \o (IF args # <<>> /\ m.doc # <<>> THEN <<":", SP>> \o m.doc
        ELSE IF m.doc # <<>> THEN <<":", SP>> \o firstLine(m.doc)
        ELSE <<>>)
    \o <<LF>>

RECURSIVE help_loop(_, _)
help_loop(ms, args) ==
    IF ms = <<>> THEN <<>>
    ELSE (IF help_skips(Head(ms), args) THEN <<>> ELSE help_entry(Head(ms), args))
         \o help_loop(Tail(ms), args)

help(cls, args) ==
    (IF args = <<>> THEN help_header ELSE <<>>)
    \o help_loop(getmembers(cls), args)
    \o (IF args = <<>> THEN help_trailer ELSE <<>>)

----------------------------------------------------------------------------
(* EmbedShell.get_commands *)

\* Mutant: run is a command like the others.
get_commands_skips_private(m) ==
    \/ ~isgeneratorfunction(m)
    \/ startswith_(m.name)

\* The two `continue` tests of the loop over the members.
get_commands_skips(m) ==
    \/ ~isgeneratorfunction(m)
    \/ startswith_(m.name)
    \/ m.name = S_run

RECURSIVE get_commands_loop(_)
get_commands_loop(ms) ==
    IF ms = <<>> THEN <<>>
    ELSE (IF get_commands_skips(Head(ms)) THEN <<>>
          ELSE << <<Head(ms).name, Head(ms).doc>> >>)
         \o get_commands_loop(Tail(ms))

get_commands(cls) == get_commands_loop(getmembers(cls))

----------------------------------------------------------------------------
(* Demo.hello *)

hello_world == <<"w","o","r","l","d","\n">>

hello(args) == IF Len(args) # 0 THEN join(args) ELSE hello_world

----------------------------------------------------------------------------
(* EmbedShell._parse_command *)

not_found == <<"C","o","m","m","a","n","d"," ","n","o","t"," ","f","o","u",
               "n","d"," ">>

\* Outcome of a coroutine call. kind "return": it returned text; "raise": it
\* raised exc; "run": it entered run(), which does not return. invoked lists
\* the members called as meth(*cmd), outermost first.
Return(t, inv) == [kind |-> "return", text |-> t, exc |-> "none", invoked |-> inv]
Raise(e, inv) == [kind |-> "raise", text |-> <<>>, exc |-> e, invoked |-> inv]
EnterRun(inv) == [kind |-> "run", text |-> <<>>, exc |-> "none", invoked |-> inv]

RECURSIVE parse_command(_, _)
RECURSIVE call_member(_, _, _)

\* res = yield from meth(*cmd), for the member m that getmembers paired
\* with the name cmd[0].
call_member(cls, m, args) ==
    CASE m.kind = "coro" /\ m.name = S_help ->
           Return(help(cls, args), <<m.name>>)
      [] m.kind = "coro" /\ m.name = S_hello ->
           Return(hello(args), <<m.name>>)
      [] m.kind = "coro" /\ m.name = S_fail ->
           \* the handler's body raises; nothing on the way out catches it
           Raise("HandlerError", <<m.name>>)
      [] m.kind = "run" ->
           \* run() takes no argument
           IF args = <<>> THEN EnterRun(<<m.name>>)
           ELSE Raise("TypeError", <<m.name>>)
      [] m.kind = "parse" ->
           \* _parse_command(text) takes exactly one argument
           IF Len(args) = 1
           THEN LET r == parse_command(cls, args[1])
                IN [r EXCEPT !.invoked = <<m.name>> \o @]
           ELSE Raise("TypeError", <<m.name>>)
      [] m.kind = "method" ->
           \* get_commands() returns a list; yield from a list hands its
           \* items to the event loop, which throws RuntimeError (bad yield)
           \* back; an empty list would make res None, which run() cannot
           \* encode.
           IF args # <<>> THEN Raise("TypeError", <<m.name>>)
           ELSE IF get_commands(cls) # <<>> THEN Raise("RuntimeError", <<m.name>>)
           ELSE Raise("AttributeError", <<m.name>>)
      [] OTHER ->
           \* a str, a StreamReader or None is not callable
           Raise("TypeError", <<>>)

\* The member `for (name, meth) in inspect.getmembers(self)` stops at.
find_member(cls, name) ==
    LET ms == getmembers(cls)
        hits == {i \in 1..Len(ms) : ms[i].name = name}
    IN IF hits = {} THEN <<>>
       ELSE << ms[CHOOSE i \in hits : \A j \in hits : i <= j] >>

\* Mutant: '?' is a name like any other.
alias_none(name) == name

\* if cmd[0] == '?': cmd[0] = 'help'
alias(name) == IF name = S_qmark THEN S_help ELSE name

parse_command(cls, t) ==
    LET cmd == split(t)
        cmd0 == alias(cmd[1])
        m == find_member(cls, cmd0)
    IN IF m # <<>> THEN call_member(cls, m[1], Tail(cmd))
       ELSE Return(not_found \o cmd0 \o help(cls, <<>>), <<>>)

----------------------------------------------------------------------------
(* Input lines *)

CmdWords == {S_help, S_qmark, S_hello, S_run, S_prompt, S_get_commands,
             S_parse_command, S__prompt, S_bogus, S_fail, <<>>}

ArgWords == {S_hello, S_help, S_tutu, S_run, <<>>}

ArgLists == UNION {[1..n -> ArgWords] : n \in 0..MaxArgs}

\* Every line "<name> [arg]*" over the words above; the empty word gives the
\* empty line, leading, trailing and doubled spaces.
Lines == {join(<<c>> \o a) : c \in CmdWords, a \in ArgLists}

\* The lines fed to a running session: one of every kind of outcome.
LoopLines == {join(l) : l \in {
    << <<>> >>, <<S_hello>>, <<S_help>>,
    <<S_help, S_bogus>>, <<S_fail>>, <<S_prompt>>, <<S_run>> }}

----------------------------------------------------------------------------
(* The reader and the writer of a session *)

\* self._prompt = '> '
prompt_text == <<">", SP>>

\* The welcome messages a shell is constructed with; <<>> is None.
Welcomes == { <<>>, <<"H", E_ACUTE, "\n">> }

\* data.replace("\n", "\r\n"): every newline becomes CR LF, every other
\* character stays. The text is halved to keep the recursion shallow.
RECURSIVE replace_lf(_)
replace_lf(t) ==
    IF t = <<>> THEN <<>>
    ELSE IF Len(t) = 1 THEN (IF t[1] = LF THEN <<CR, LF>> ELSE t)
    ELSE LET h == Len(t) \div 2
         IN replace_lf(SubSeq(t, 1, h)) \o replace_lf(SubSeq(t, h + 1, Len(t)))

\* asyncio.StreamReader.feed_data: append to the buffer
StreamReader_feed_data(buf, data) == buf \o data

\* Mutant: the adapter passes the data on as it is.
StreamWriter_feed_data_raw(buf, data) == StreamReader_feed_data(buf, data)

\* StreamWriter.feed_data: data.decode().replace("\n", "\r\n"), encoded again
StreamWriter_feed_data(buf, data) ==
    StreamReader_feed_data(buf, utf8_encode(replace_lf(utf8_decode(data).text)))

\* self._writer.feed_data(data): shell.writer is a StreamWriter on the telnet
\* path and a plain asyncio.StreamReader on the stdin path.
writer_feed_data(p, buf, data) ==
    IF p = "telnet" THEN StreamWriter_feed_data(buf, data)
    ELSE StreamReader_feed_data(buf, data)

has_line(buf) == \E i \in 1..Len(buf) : buf[i] = LF

first_lf(buf) == CHOOSE i \in 1..Len(buf) : buf[i] = LF /\ \A j \in 1..(i - 1) : buf[j] # LF

\* What readline() returns once it returns: the bytes up to and including
\* the first newline, or at end of stream whatever is left (b'' if nothing).
readline(buf) == IF has_line(buf) THEN SubSeq(buf, 1, first_lf(buf)) ELSE buf

after_readline(buf) ==
    IF has_line(buf) THEN SubSeq(buf, first_lf(buf) + 1, Len(buf)) ELSE <<>>

Unit(kind, t) == [kind |-> kind, text |-> t]

----------------------------------------------------------------------------
(* EmbedShell.run *)

\* The writes of run() from its entry to its first readline().
run_entry_units(w) ==
    (IF w # <<>> THEN <<Unit("welcome", w)>> ELSE <<>>)
    \o <<Unit("prompt", prompt_text)>>

\* self._writer.feed_data(text.encode()) for each of the units, in order.
RECURSIVE feed_units(_, _, _)
feed_units(p, buf, us) ==
    IF us = <<>> THEN buf
    ELSE feed_units(p, writer_feed_data(p, buf, utf8_encode(Head(us).text)), Tail(us))

\* The writes of one iteration after _parse_command returned r: the response,
\* then the prompt of the next iteration.
run_response_units(r) == <<Unit("response", r.text), Unit("prompt", prompt_text)>>

IdleDisp == text = <<>> /\ res = <<>> /\ cmds = <<>>
IdleBridge ==
    /\ pending = <<>> /\ sent = <<>> /\ chunks = <<>>
    /\ edBuf = <<>> /\ edCursor = 0 /\ edReturn = <<>> /\ bridgeErr = "none"
IdleFacade ==
    /\ hostState = "running" /\ hostTicks = 0 /\ hostJobs = 0
    /\ facadeCalls = [stop |-> 0, close |-> 0] /\ facadeErr = "none"
    /\ hostReaders = {} /\ readerCalls = 0

\* The three tasks create_stdin_shell creates, by the names of its variables.
Tasks == {"reader_task", "writer_task", "shell_task"}

IdleStdin ==
    /\ tasks = [t \in Tasks |-> "pending"]
    /\ stdout = <<>>
    /\ gather = [seen |-> {}, result |-> "pending", cancels |-> 0]

\* A shell is constructed and wired to a front-end; run() is scheduled.
Init ==
    /\ shellClass \in ShellClasses
    /\ welcome \in Welcomes
    /\ path \in {"telnet", "stdin"}
    /\ rbuf = <<>> /\ reof = FALSE /\ wbuf = <<>>
    /\ pc = "start" /\ exc = "none" /\ depth = 0
    /\ written = <<>> /\ consumed = <<>> /\ fedLines = <<>> /\ neof = 0
    /\ IdleDisp /\ IdleBridge /\ IdleFacade /\ IdleStdin

\* The task starts: welcome message if set, first prompt, then readline().
run_entry ==
    /\ pc = "start"
    /\ written' = written \o run_entry_units(welcome)
    /\ wbuf' = feed_units(path, wbuf, run_entry_units(welcome))
    /\ pc' = "read"
    /\ UNCHANGED <<shellClass, welcome, path, rbuf, reof, exc, depth, consumed,
                   fedLines, neof>>

run_start ==
    /\ run_entry
    /\ UNCHANGED <<dispVars, bridgeVars, facadeVars, stdinVars>>

\* readline() returns; the line is stripped, dispatched and answered, and the
\* loop writes the next prompt and is back at readline().
run_loop ==
    /\ pc = "read"
    /\ has_line(rbuf) \/ (reof /\ neof < MaxEofReads)
    /\ LET line == utf8_decode(readline(rbuf))
           result == strip(line.text)
           r == IF line.ok THEN parse_command(shellClass, result)
                ELSE Raise("UnicodeDecodeError", <<>>)
       IN /\ r.kind = "run" => depth < MaxDepth
          /\ rbuf' = after_readline(rbuf)
          /\ neof' = IF has_line(rbuf) THEN neof ELSE neof + 1
          /\ consumed' = Append(consumed, result)
          /\ CASE r.kind = "return" ->
                    /\ written' = written \o run_response_units(r)
                    /\ wbuf' = feed_units(path, wbuf, run_response_units(r))
                    /\ UNCHANGED <<pc, exc, depth>>
               [] r.kind = "run" ->
                    /\ written' = written \o run_entry_units(welcome)
                    /\ wbuf' = feed_units(path, wbuf, run_entry_units(welcome))
                    /\ depth' = depth + 1
                    /\ UNCHANGED <<pc, exc>>
               [] OTHER ->
                    /\ pc' = "failed"
                    /\ exc' = r.exc
                    /\ UNCHANGED <<written, wbuf, depth>>
    /\ UNCHANGED <<shellClass, welcome, path, reof, fedLines>>

run_iter ==
    /\ run_loop
    /\ UNCHANGED <<dispVars, bridgeVars, facadeVars, stdinVars>>

\* The producer (CLIInputStream.write or feed_stdin) delivers a line.
reader_feed_line(l) ==
    /\ ~reof
    /\ Len(fedLines) < MaxLines
    /\ rbuf' = StreamReader_feed_data(rbuf, utf8_encode(l \o <<LF>>))
    /\ fedLines' = Append(fedLines, l)
    /\ UNCHANGED <<shellClass, welcome, path, reof, wbuf, pc, exc, depth,
                   written, consumed, neof>>

feed_line(l) ==
    /\ reader_feed_line(l)
    /\ UNCHANGED <<dispVars, bridgeVars, facadeVars, stdinVars>>

\* The input endpoint reaches end of stream.
feed_eof ==
    /\ ~reof
    /\ reof' = TRUE
    /\ UNCHANGED <<shellClass, welcome, path, rbuf, wbuf, pc, exc, depth,
                   written, consumed, fedLines, neof>>
    /\ UNCHANGED <<dispVars, bridgeVars, facadeVars, stdinVars>>

\* The run() task is cancelled: CancelledError is thrown into it where it is
\* suspended, in the readline() of the innermost run() frame or before its
\* first step; nothing in run() or _parse_command catches it.
cancel ==
    /\ pc \in {"start", "read"}
    /\ pc' = "cancelled"
    /\ UNCHANGED <<shellClass, welcome, path, rbuf, reof, wbuf, exc, depth,
                   written, consumed, fedLines, neof>>
    /\ UNCHANGED <<dispVars, bridgeVars, facadeVars, stdinVars>>

Next ==
    \/ run_start
    \/ run_iter
    \/ \E l \in LoopLines : feed_line(l)
    \/ feed_eof
    \/ cancel

Spec == Init /\ [][Next]_vars

----------------------------------------------------------------------------
(* _parse_command applied to one line *)

\* The class of the shell is chosen with the line.
InitDispatch ==
    /\ shellClass \in ShellClasses
    /\ welcome = <<>> /\ path = "telnet"
    /\ rbuf = <<>> /\ reof = FALSE /\ wbuf = <<>> /\ pc = "start"
    /\ exc = "none" /\ depth = 0 /\ written = <<>> /\ consumed = <<>>
    /\ fedLines = <<>> /\ neof = 0
    /\ IdleBridge /\ IdleFacade /\ IdleStdin
    /\ text \in Lines
    /\ res = <<>>
    /\ cmds = <<>>

dispatch ==
    /\ res = <<>>
    /\ res' = <<parse_command(shellClass, text)>>
    /\ UNCHANGED <<text, cmds, coreVars, bridgeVars, facadeVars, stdinVars>>

\* A front-end asks the shell for its commands.
list_commands ==
    /\ cmds = <<>>
    /\ cmds' = <<get_commands(shellClass)>>
    /\ UNCHANGED <<text, res, coreVars, bridgeVars, facadeVars, stdinVars>>

NextDispatch ==
    \/ dispatch
    \/ list_commands

SpecDispatch == InitDispatch /\ [][NextDispatch]_vars

----------------------------------------------------------------------------
(* The telnet line-editing bridge: CLIInputStream over the embedded editor *)

\* Bytes a client sends: a printable character, the two bytes of e-acute,
\* Enter, and the control bytes 0x7f (backspace) and 0x02 (Ctrl-B, cursor
\* left), named by atoms.
DEL == "DEL"
CTRL_B == "^B"
Keys == {"a", B_C3, B_A9, CR, DEL, CTRL_B}

Editor(buf, cur, ret) == [buf |-> buf, cur |-> cur, ret |-> ret]

\* cb.feed_key: one key press reaches the editor. Once the editor is
\* returning (cli.is_done) it ignores key presses; Enter stores the buffer's
\* text as the return value and leaves the buffer as it is.
feed_key(ed, k) ==
    IF ed.ret # <<>> THEN ed
    ELSE IF k = CR THEN [ed EXCEPT !.ret = <<ed.buf>>]
    ELSE IF k = DEL THEN
        IF ed.cur = 0 THEN ed
        ELSE Editor(SubSeq(ed.buf, 1, ed.cur - 1)
                    \o SubSeq(ed.buf, ed.cur + 1, Len(ed.buf)), ed.cur - 1, ed.ret)
    ELSE IF k = CTRL_B THEN [ed EXCEPT !.cur = IF @ = 0 THEN 0 ELSE @ - 1]
    ELSE Editor(SubSeq(ed.buf, 1, ed.cur) \o <<k>>
                \o SubSeq(ed.buf, ed.cur + 1, Len(ed.buf)), ed.cur + 1, ed.ret)

\* self._inputstream.feed(data): every character of the chunk, in order.
RECURSIVE inputstream_feed(_, _)
inputstream_feed(ed, data) ==
    IF data = <<>> THEN ed
    ELSE inputstream_feed(feed_key(ed, Head(data)), Tail(data))

\* self._cli.reset(): clears the return value.
cli_reset(ed) == [ed EXCEPT !.ret = <<>>]

\* Mutant: the edit buffer is left as it is.
buffer_reset_missing(ed) == ed

\* self._cli.buffers[DEFAULT_BUFFER].reset(): empty text, cursor at column 0.
buffer_reset(ed) == [ed EXCEPT !.buf = <<>>, !.cur = 0]

\* CLIInputStream.write(data): the editor and the reader buffer after it, and
\* the exception it raises: data.decode() fails before anything is fed.
CLIInputStream_write(ed, buf, data) ==
    LET chars == utf8_decode(data)
        fed == inputstream_feed(ed, chars.text)
    IN IF ~chars.ok
       THEN [ed |-> ed, rbuf |-> buf, err |-> "UnicodeDecodeError"]
       ELSE IF fed.ret # <<>>
       THEN [ed |-> buffer_reset(cli_reset(fed)),
             rbuf |-> StreamReader_feed_data(buf, utf8_encode(fed.ret[1] \o <<LF>>)),
             err |-> "none"]
       ELSE [ed |-> fed, rbuf |-> buf, err |-> "none"]

InitBridge ==
    /\ shellClass = "EmbedShell" /\ welcome = <<>> /\ path = "telnet"
    /\ rbuf = <<>> /\ reof = FALSE /\ wbuf = <<>>
    /\ pc = "start" /\ exc = "none" /\ depth = 0
    /\ written = <<>> /\ consumed = <<>> /\ fedLines = <<>> /\ neof = 0
    /\ pending = <<>> /\ sent = <<>> /\ chunks = <<>>
    /\ edBuf = <<>> /\ edCursor = 0 /\ edReturn = <<>> /\ bridgeErr = "none"
    /\ IdleDisp /\ IdleFacade /\ IdleStdin

\* A byte of the client arrives at the telnet server.
client_send(k) ==
    /\ Len(sent) < MaxBytes
    /\ pending' = Append(pending, k)
    /\ sent' = Append(sent, k)
    /\ UNCHANGED <<chunks, edBuf, edCursor, edReturn, bridgeErr>>
    /\ UNCHANGED <<coreVars, dispVars, facadeVars, stdinVars>>

\* The telnet server passes the first n received bytes to write() as one chunk.
bridge_write(n) ==
    /\ n \in 1..Len(pending)
    /\ LET data == SubSeq(pending, 1, n)
           w == CLIInputStream_write(Editor(edBuf, edCursor, edReturn), rbuf, data)
       IN /\ edBuf' = w.ed.buf
          /\ edCursor' = w.ed.cur
          /\ edReturn' = w.ed.ret
          /\ rbuf' = w.rbuf
          /\ bridgeErr' = w.err
          /\ chunks' = Append(chunks, data)
    /\ pending' = SubSeq(pending, n + 1, Len(pending))
    /\ UNCHANGED sent
    /\ UNCHANGED <<shellClass, welcome, path, reof, wbuf, pc, exc, depth,
                   written, consumed, fedLines, neof>>
    /\ UNCHANGED <<dispVars, facadeVars, stdinVars>>

NextBridge ==
    \/ \E k \in Keys : client_send(k)
    \/ \E n \in 1..MaxBytes : bridge_write(n)

SpecBridge == InitBridge /\ [][NextBridge]_vars

----------------------------------------------------------------------------
(* The scheduler facade: UnstopableEventLoop around the host's loop *)

\* Mutant: stop() is handed to the wrapped loop.
UnstopableEventLoop_stop_forwarded(host) == "stopped"

\* UnstopableEventLoop.stop(): " Ignore. " The state of the wrapped loop after it.
UnstopableEventLoop_stop(host) == host

\* UnstopableEventLoop.close(): " Ignore. " The state of the wrapped loop after it.
UnstopableEventLoop_close(host) == host

InitFacade ==
    /\ shellClass = "EmbedShell" /\ welcome = <<>> /\ path = "telnet"
    /\ rbuf = <<>> /\ reof = FALSE /\ wbuf = <<>>
    /\ pc = "start" /\ exc = "none" /\ depth = 0
    /\ written = <<>> /\ consumed = <<>> /\ fedLines = <<>> /\ neof = 0
    /\ hostState = "running" /\ hostTicks = 0 /\ hostJobs = 0
    /\ facadeCalls = [stop |-> 0, close |-> 0] /\ facadeErr = "none"
    /\ hostReaders = {} /\ readerCalls = 0
    /\ IdleDisp /\ IdleBridge /\ IdleStdin

\* The editor calls stop() on the event loop it was given.
facade_stop ==
    /\ facadeCalls.stop < MaxCalls
    /\ facadeCalls' = [facadeCalls EXCEPT !.stop = @ + 1]
    /\ hostState' = UnstopableEventLoop_stop(hostState)
    /\ facadeErr' = "none"
    /\ UNCHANGED <<hostTicks, hostJobs, hostReaders, readerCalls>>
    /\ UNCHANGED <<coreVars, dispVars, bridgeVars, stdinVars>>

\* The editor calls close() on the event loop it was given.
facade_close ==
    /\ facadeCalls.close < MaxCalls
    /\ facadeCalls' = [facadeCalls EXCEPT !.close = @ + 1]
    /\ hostState' = UnstopableEventLoop_close(hostState)
    /\ facadeErr' = "none"
    /\ UNCHANGED <<hostTicks, hostJobs, hostReaders, readerCalls>>
    /\ UNCHANGED <<coreVars, dispVars, bridgeVars, stdinVars>>

\* run_in_executor / call_from_executor: handed to the wrapped loop.
facade_run_in_executor ==
    /\ hostJobs < MaxCalls
    /\ hostJobs' = hostJobs + 1
    /\ facadeErr' = "none"
    /\ UNCHANGED <<hostState, hostTicks, facadeCalls, hostReaders, readerCalls>>
    /\ UNCHANGED <<coreVars, dispVars, bridgeVars, stdinVars>>

\* The file descriptors of the host: the two it can watch.
Fds == {"fd3", "fd4"}

\* Outcome of a facade call on the watched descriptors: the set the wrapped
\* loop watches after it and the exception raised.
ReaderCall(readers, err) == [readers |-> readers, err |-> err]

\* Mutant: add_reader() is handed to the wrapped loop.
UnstopableEventLoop_add_reader_forwarded(readers, fd) ==
    ReaderCall(readers \cup {fd}, "none")

\* UnstopableEventLoop.add_reader(fd, callback): raise NotImplementedError
UnstopableEventLoop_add_reader(readers, fd) ==
    ReaderCall(readers, "NotImplementedError")

\* UnstopableEventLoop.remove_reader(fd): raise NotImplementedError
UnstopableEventLoop_remove_reader(readers, fd) ==
    ReaderCall(readers, "NotImplementedError")

\* The editor calls add_reader(fd, callback) on the event loop it was given.
facade_add_reader(fd) ==
    /\ readerCalls < MaxCalls
    /\ readerCalls' = readerCalls + 1
    /\ hostReaders' = UnstopableEventLoop_add_reader(hostReaders, fd).readers
    /\ facadeErr' = UnstopableEventLoop_add_reader(hostReaders, fd).err
    /\ UNCHANGED <<hostState, hostTicks, hostJobs, facadeCalls>>
    /\ UNCHANGED <<coreVars, dispVars, bridgeVars, stdinVars>>

\* The editor calls remove_reader(fd) on the event loop it was given.
facade_remove_reader(fd) ==
    /\ readerCalls < MaxCalls
    /\ readerCalls' = readerCalls + 1
    /\ hostReaders' = UnstopableEventLoop_remove_reader(hostReaders, fd).readers
    /\ facadeErr' = UnstopableEventLoop_remove_reader(hostReaders, fd).err
    /\ UNCHANGED <<hostState, hostTicks, hostJobs, facadeCalls>>
    /\ UNCHANGED <<coreVars, dispVars, bridgeVars, stdinVars>>

\* add_reader(fd, callback) / remove_reader(fd): raise NotImplementedError.
facade_add_remove_reader ==
    \E fd \in Fds : facade_add_reader(fd) \/ facade_remove_reader(fd)

\* The host watches or stops watching a descriptor of its own transports.
host_watch(fd) ==
    /\ hostState = "running"
    /\ hostReaders' = IF fd \in hostReaders THEN hostReaders \ {fd}
                      ELSE hostReaders \cup {fd}
    /\ UNCHANGED <<hostState, hostTicks, hostJobs, facadeCalls, facadeErr,
                   readerCalls>>
    /\ UNCHANGED <<coreVars, dispVars, bridgeVars, stdinVars>>

\* The host's loop runs a callback of one of its other tasks; a loop that
\* was stopped or closed runs none.
host_tick ==
    /\ hostState = "running"
    /\ hostTicks < MaxCalls
    /\ hostTicks' = hostTicks + 1
    /\ UNCHANGED <<hostState, hostJobs, facadeCalls, facadeErr, hostReaders,
                   readerCalls>>
    /\ UNCHANGED <<coreVars, dispVars, bridgeVars, stdinVars>>

NextFacade ==
    \/ facade_stop
    \/ facade_close
    \/ facade_run_in_executor
    \/ facade_add_remove_reader
    \/ host_tick
    \/ \E fd \in Fds : host_watch(fd)

SpecFacade == InitFacade /\ [][NextFacade]_vars

----------------------------------------------------------------------------
(* The stdin front-end: create_stdin_shell *)

\* The lines typed at the terminal of a stdin session: one answered with a
\* short text, one with arguments, one that ends run() with an exception.
StdinLines == {join(l) : l \in { <<S_hello>>, <<S_hello, S_tutu>>, <<S_prompt>> }}

\* Mutant: the future cancels the other children when one of them is done.
gather_cancels_siblings(ts, t) ==
    [u \in Tasks |-> IF u # t /\ ts[u] = "pending" THEN "cancelled" ELSE ts[u]]

\* asyncio.gather(shell_task, writer_task, reader_task), return_exceptions
\* not set: the children after the done callback of child t has run.  The
\* callback touches the outer future only.
gather_child_done(ts, t) == ts

\* The outer future after the done callback of child t: the first child that
\* ends with an exception or cancelled settles it.
gather_result(g, ts, t) ==
    IF g.result # "pending" THEN g.result
    ELSE IF ts[t] = "cancelled" THEN "CancelledError" ELSE ts[t]

InitStdin ==
    /\ shellClass = "Demo" /\ welcome \in Welcomes /\ path = "stdin"
    /\ rbuf = <<>> /\ reof = FALSE /\ wbuf = <<>>
    /\ pc = "start" /\ exc = "none" /\ depth = 0
    /\ written = <<>> /\ consumed = <<>> /\ fedLines = <<>> /\ neof = 0
    /\ IdleDisp /\ IdleBridge /\ IdleFacade /\ IdleStdin

\* shell_task runs one step of shell.run(), from one suspension to the next.
stdin_shell_task ==
    /\ tasks["shell_task"] = "pending"
    /\ run_entry \/ run_loop
    /\ tasks' = [tasks EXCEPT !["shell_task"] =
                    IF pc' = "failed" THEN exc' ELSE "pending"]
    /\ UNCHANGED <<stdout, gather>>
    /\ UNCHANGED <<dispVars, bridgeVars, facadeVars>>

\* feed_stdin: prompt() returns the line typed; it is fed with its newline.
feed_stdin(l) ==
    /\ tasks["reader_task"] = "pending"
    /\ reader_feed_line(l)
    /\ UNCHANGED <<dispVars, bridgeVars, facadeVars, stdinVars>>

\* feed_stdin: prompt() raises EOFError (Ctrl-D on an empty line); nothing in
\* feed_stdin catches it.
feed_stdin_eof ==
    /\ tasks["reader_task"] = "pending"
    /\ tasks' = [tasks EXCEPT !["reader_task"] = "EOFError"]
    /\ UNCHANGED <<stdout, gather>>
    /\ UNCHANGED <<coreVars, dispVars, bridgeVars, facadeVars>>

\* read_stdout: one byte is read from the writer, decoded and printed.
read_stdout ==
    /\ tasks["writer_task"] = "pending"
    /\ Len(stdout) < Len(wbuf)
    /\ LET c == utf8_decode(<<wbuf[Len(stdout) + 1]>>)
       IN IF c.ok
          THEN /\ stdout' = stdout \o c.text
               /\ UNCHANGED tasks
          ELSE /\ tasks' = [tasks EXCEPT !["writer_task"] = "UnicodeDecodeError"]
               /\ UNCHANGED stdout
    /\ UNCHANGED gather
    /\ UNCHANGED <<coreVars, dispVars, bridgeVars, facadeVars>>

\* The done callback gather attached to child t runs.
gather_done_callback(t) ==
    /\ tasks[t] # "pending"
    /\ t \notin gather.seen
    /\ gather' = [gather EXCEPT !.seen = @ \cup {t},
                                !.result = gather_result(gather, tasks, t)]
    /\ tasks' = gather_child_done(tasks, t)
    /\ UNCHANGED stdout
    /\ UNCHANGED <<coreVars, dispVars, bridgeVars, facadeVars>>

\* The caller cancels the future gather returned: it cancels every child
\* that is not done.
caller_cancel ==
    /\ gather.result = "pending"
    /\ gather.cancels = 0
    /\ gather' = [gather EXCEPT !.cancels = @ + 1]
    /\ tasks' = [t \in Tasks |->
                    IF tasks[t] = "pending" THEN "cancelled" ELSE tasks[t]]
    /\ UNCHANGED stdout
    /\ UNCHANGED <<coreVars, dispVars, bridgeVars, facadeVars>>

NextStdin ==
    \/ stdin_shell_task
    \/ \E l \in StdinLines : feed_stdin(l)
    \/ feed_stdin_eof
    \/ read_stdout
    \/ \E t \in Tasks : gather_done_callback(t)
    \/ caller_cancel

SpecStdin == InitStdin /\ [][NextStdin]_vars

----------------------------------------------------------------------------
(* Vocabulary of the properties *)

IsPrefix(p, t) == Len(p) <= Len(t) /\ SubSeq(t, 1, Len(p)) = p

IsSuffix(p, t) == Len(p) <= Len(t) /\ SubSeq(t, Len(t) - Len(p) + 1, Len(t)) = p


\* The commands of a shell: its public generator functions other than run.
Commands(cls) ==
    {m \in ClassMembers(cls) :
        m.kind \in {"coro", "run", "parse"} /\ Head(m.name) # "_" /\ m.name # S_run}

CommandNames(cls) == {m.name : m \in Commands(cls)}

\* A first token that names a command, '?' included.
Registered(cls, x) ==
    x = S_qmark \/ \E i \in 1..Len(get_commands(cls)) : get_commands(cls)[i][1] = x

ByName(a, b) == StrLess(a.name, b.name)

ByDefinition(a, b) == a.line < b.line

Least(S, Less(_, _)) == CHOOSE x \in S : \A y \in S \ {x} : Less(x, y)

\* The members S as a sequence in ascending order of their names.
RECURSIVE InNameOrder(_)
InNameOrder(S) ==
    IF S = {} THEN <<>>
    ELSE <<Least(S, ByName)>> \o InNameOrder(S \ {Least(S, ByName)})

\* The members S as a sequence in the order of their definitions.
RECURSIVE InDefinitionOrder(_)
InDefinitionOrder(S) ==
    IF S = {} THEN <<>>
    ELSE <<Least(S, ByDefinition)>> \o InDefinitionOrder(S \ {Least(S, ByDefinition)})

\* 'name: firstDocLine', or the bare name of a command without doc.
ListingLine(m) ==
    m.name \o (IF m.doc = <<>> THEN <<>> ELSE <<":", SP>> \o firstLine(m.doc)) \o <<LF>>

RECURSIVE ListingLines(_)
ListingLines(ms) ==
    IF ms = <<>> THEN <<>> ELSE ListingLine(Head(ms)) \o ListingLines(Tail(ms))

\* The zero-argument help text with the commands in the order ms.
Listing(ms) == help_header \o ListingLines(ms) \o help_trailer

\* 'Command not found', without the space that precedes the name
CommandNotFound == SubSeq(not_found, 1, Len(not_found) - 1)

Dispatched == res # <<>>

Outcome == res[1]

Tokens == split(text)

\* The line is 'help' or '?' followed by the one argument Tokens[2].
HelpOneArg == Len(Tokens) = 2 /\ Tokens[1] \in {S_help, S_qmark}

RECURSIVE RawText(_)
RawText(us) == IF us = <<>> THEN <<>> ELSE Head(us).text \o RawText(Tail(us))

Responses == {i \in 1..Len(written) : written[i].kind = "response"}

NoBareLF(t) == \A i \in 1..Len(t) : t[i] = LF => (i > 1 /\ t[i - 1] = CR)

Contains(t, p) == \E i \in 0..(Len(t) - Len(p)) : SubSeq(t, i + 1, i + Len(p)) = p

----------------------------------------------------------------------------
(* Properties *)

\* C1: a line whose first token is no registered command (not a name of
\* get_commands, not '?') invokes no handler and returns exactly
\* 'Command not found ' + token + the zero-argument help listing; also for
\* 'run', for names starting with '_' and for the other members of the shell.
C1_UnknownCommandText ==
    (Dispatched /\ ~Registered(shellClass, Tokens[1])) =>
        /\ Outcome.kind = "return"
        /\ Outcome.invoked = <<>>
        /\ Outcome.text = not_found \o Tokens[1] \o help(shellClass, <<>>)

\* C2: once readline() finds the end of the stream with nothing queued, run()
\* writes no further prompt or response.
C2_EofEndsRun ==
    [][(pc = "read" /\ reof /\ ~has_line(rbuf)) => written' = written]_vars

\* C3: every line run() reads gets a response written, and no line ends
\* run() with an exception.
C3_EveryLineAnswered ==
    /\ exc = "none"
    /\ pc = "read" => Cardinality(Responses) = Len(consumed)

\* C4 as stated: zero-argument help is 'Help:\n', one line per command in
\* definition order, and the trailer.
C4_ListingInDefinitionOrder ==
    (Dispatched /\ Tokens \in {<<S_help>>, <<S_qmark>>}) =>
        /\ Outcome.kind = "return"
        /\ Outcome.text = Listing(InDefinitionOrder(Commands(shellClass)))

\* C4 amended: zero-argument help is 'Help:\n', exactly one line
\* 'name: firstDocLine' (bare name without doc) per command in ascending order
\* of the command names, and the trailer.
C4_ListingInNameOrder ==
    (Dispatched /\ Tokens \in {<<S_help>>, <<S_qmark>>}) =>
        /\ Outcome.kind = "return"
        /\ Outcome.text = Listing(InNameOrder(Commands(shellClass)))

C4_Witness ==
    /\ Dispatched /\ Tokens = <<S_help>> /\ shellClass = "Demo"
    /\ Outcome.text = Listing(<<Member(S_hello, "coro", hello_doc, 278),
                                Member(S_help, "coro", help_doc, 71)>>)

\* C5 as stated: help with one argument that names no command answers with
\* the unknown-command text: 'Command not found' and the help listing.
C5_HelpUnknownIsNotFound ==
    (Dispatched /\ HelpOneArg /\ Tokens[2] \notin CommandNames(shellClass)) =>
        /\ Outcome.kind = "return"
        /\ IsPrefix(CommandNotFound, Outcome.text)
        /\ IsSuffix(Listing(InNameOrder(Commands(shellClass))), Outcome.text)

\* C5 amended: help with one argument that names no command returns the
\* empty text: no 'Command not found', no listing.
C5_HelpUnknownIsEmpty ==
    (Dispatched /\ HelpOneArg /\ Tokens[2] \notin CommandNames(shellClass)) =>
        /\ Outcome.kind = "return"
        /\ Outcome.text = <<>>

C5_Witness ==
    /\ Dispatched /\ Tokens = <<S_help, S_tutu>> /\ shellClass = "Demo"
    /\ Outcome.kind = "return" /\ Outcome.text = <<>>

\* C6: for every command c, 'help c' returns 'c: ', the complete doc of c and
\* the newline that ends the entry, and nothing of another command.
C6_HelpOfCommand ==
    \A m \in Commands(shellClass) :
        (Dispatched /\ Tokens = <<S_help, m.name>>) =>
            /\ Outcome.kind = "return"
            /\ Outcome.text = m.name \o <<":", SP>> \o m.doc \o <<LF>>

C6_Witness ==
    /\ Dispatched /\ Tokens = <<S_help, S_hello>> /\ shellClass = "Demo"
    /\ Outcome.text = S_hello \o <<":", SP>> \o hello_doc \o <<LF>>

\* C7: on the telnet path the bytes readable from the writer are the texts
\* run() wrote with every LF replaced by CR LF; no LF lacks a CR before it.
C7_TelnetCRLF ==
    path = "telnet" =>
        /\ wbuf = replace_lf(utf8_encode(RawText(written)))
        /\ NoBareLF(wbuf)

C7_Witness ==
    /\ path = "telnet"
    /\ \E i \in Responses : written[i].text = hello_world
    /\ Contains(wbuf, <<"w","o","r","l","d", CR, LF>>)
    /\ welcome # <<>>

\* The bytes are those of one command: well-formed utf-8 with Enter as the
\* last byte and nowhere else.
OneCommand(s) ==
    /\ s # <<>>
    /\ utf8_valid(s)
    /\ s[Len(s)] = CR
    /\ \A i \in 1..(Len(s) - 1) : s[i] # CR

FreshEditor == Editor(<<>>, 0, <<>>)

\* The text the editor holds when the bytes s end with Enter.
EditedText(s) == inputstream_feed(FreshEditor, utf8_decode(s).text).ret[1]

\* C8: however the bytes of one command are cut into chunks for write(), the
\* reader gets the same single line: the editor's text and '\n'.
C8_ChunkingIndependent ==
    (pending = <<>> /\ OneCommand(sent)) =>
        rbuf = utf8_encode(EditedText(sent) \o <<LF>>)

\* C9: a write() that delivers a line leaves the editor clean: no return
\* value, empty edit buffer, cursor at column 0.
C9_CleanAfterLine ==
    [][rbuf' # rbuf => (edReturn' = <<>> /\ edBuf' = <<>> /\ edCursor' = 0)]_vars

C9_Witness ==
    /\ pending = <<>> /\ sent = <<"a", B_C3, B_A9, CR>>
    /\ rbuf = <<"a", B_C3, B_A9, LF>>
    /\ edReturn = <<>> /\ edBuf = <<>> /\ edCursor = 0

\* C10: stop() and close() on the facade raise nothing, reach the wrapped
\* loop in no way and leave it running; its other tasks can still be run.
C10_StopCloseIgnored ==
    /\ [](hostState = "running" /\ (hostTicks < MaxCalls => ENABLED host_tick))
    /\ [][facadeCalls' # facadeCalls =>
            /\ facadeErr' = "none"
            /\ <<hostState, hostTicks, hostJobs>>' = <<hostState, hostTicks, hostJobs>>]_vars

C10_Witness ==
    /\ facadeCalls.stop >= 2 /\ facadeCalls.close >= 2
    /\ hostState = "running" /\ hostTicks >= 1

\* C11: every add_reader(fd, callback) and remove_reader(fd) on the facade
\* raises NotImplementedError at once and leaves the descriptors the wrapped
\* loop watches as they are.
C11_ReadersUnsupported ==
    [][readerCalls' # readerCalls =>
          /\ facadeErr' = "NotImplementedError"
          /\ hostReaders' = hostReaders]_vars

C11_Witness ==
    /\ readerCalls >= 2
    /\ facadeErr = "NotImplementedError"
    /\ hostReaders = {"fd3"}

\* C12: a command handler that raises does not end the session: once the
\* line of a registered command is consumed the run loop is still alive, the
\* failure having become the text of the response.
C12_HandlerFailureAnswered ==
    (consumed # <<>> /\ Registered(shellClass, split(consumed[Len(consumed)])[1]))
        => pc # "failed"

\* C13: on Demo, 'hello' returns 'world' and a newline, and 'hello a1 .. an'
\* returns the arguments joined by single spaces and a newline.
C13_HelloEcho ==
    (Dispatched /\ shellClass = "Demo" /\ Tokens[1] = S_hello) =>
        /\ Outcome.kind = "return"
        /\ Outcome.text = IF Len(Tokens) = 1
                          THEN <<"w","o","r","l","d",LF>>
                          ELSE join(Tail(Tokens)) \o <<LF>>

\* C14: in the stdin front-end the three tasks are scheduled one by one and
\* joined by gather: when one of them ends, the others are not cancelled and
\* stay scheduled; a task is cancelled only when the caller cancels the join.
C14_TasksIndependent ==
    [][\A t \in Tasks :
          (tasks[t] = "pending" /\ tasks'[t] # "pending")
              => \/ gather'.cancels # gather.cancels
                 \/ /\ tasks'[t] # "cancelled"
                    /\ \A u \in Tasks \ {t} : tasks'[u] = tasks[u]]_vars

\* run() has ended with an exception and gather has seen it; the two other
\* tasks are scheduled still and have gone on: a line typed afterwards waits
\* in the reader and all the output is printed.
C14_Witness ==
    /\ tasks["shell_task"] = "TypeError"
    /\ "shell_task" \in gather.seen
    /\ tasks["writer_task"] = "pending" /\ tasks["reader_task"] = "pending"
    /\ rbuf # <<>>
    /\ stdout = wbuf /\ stdout # <<>>

\* C15: '?' is an alias of help: for every list of arguments the line
\* '? a1 .. an' is answered with the text the line 'help a1 .. an' is answered
\* with, and a bare '?' with the zero-argument listing.
C15_QuestionMarkIsHelp ==
    (Dispatched /\ Tokens[1] = S_qmark) =>
        /\ Outcome.kind = "return"
        /\ Outcome = parse_command(shellClass, S_help \o Tail(text))
        /\ Len(Tokens) = 1 =>
              Outcome.text = Listing(InNameOrder(Commands(shellClass)))

C15_Witness ==
    /\ Dispatched
    /\ shellClass = "Demo"
    /\ Tokens = <<S_qmark, S_hello>>
    /\ Outcome.text = S_hello \o <<":", SP>> \o hello_doc \o <<LF>>

\* The units run() wrote after the welcome text.
WrittenBody ==
    IF welcome # <<>> /\ written # <<>> THEN Tail(written) ELSE written

\* C16: the writes of a session are the welcome text once and first if and
\* only if it is set, then prompt, response, prompt, response, ..; one line is
\* consumed for each response and the k-th response is the text
\* _parse_command returns for the k-th line consumed.
C16_WriteSequence ==
    /\ (welcome # <<>> /\ written # <<>>) => written[1] = Unit("welcome", welcome)
    /\ \A i \in 1..Len(WrittenBody) :
          WrittenBody[i].kind = IF i % 2 = 1 THEN "prompt" ELSE "response"
    /\ \A k \in 1..(Len(WrittenBody) \div 2) :
          /\ k <= Len(consumed)
          /\ WrittenBody[2 * k].text = parse_command(shellClass, consumed[k]).text
    /\ pc = "read" => Len(WrittenBody) = 2 * Len(consumed) + 1

RECURSIVE StripAll(_)
StripAll(ls) == IF ls = <<>> THEN <<>> ELSE <<strip(Head(ls))>> \o StripAll(Tail(ls))

\* The lines run() got from the reader, reads at end of stream left out.
ConsumedLines == SubSeq(consumed, 1, Len(consumed) - neof)

\* C17: the reader is a lossless FIFO between the producer and run(): the
\* lines consumed are the lines delivered, each once and in the order of
\* delivery, and unless a handler raised, every line delivered is consumed and
\* answered once: run() never ends, and whenever it waits at an empty reader
\* there are as many responses as lines consumed.
C17_LosslessFifo ==
    /\ Len(ConsumedLines) <= Len(fedLines)
    /\ ConsumedLines = StripAll(SubSeq(fedLines, 1, Len(ConsumedLines)))
    /\ exc # "HandlerError" => pc # "failed"
    /\ (pc = "read" /\ ~has_line(rbuf)) =>
          /\ Len(ConsumedLines) = Len(fedLines)
          /\ Cardinality(Responses) = Len(consumed)

\* C18: when the run() task is cancelled the writer holds whole units only
\* (all that was written, nothing cut short), every line consumed has its
\* response written, and the task writes nothing afterwards.
C18_CancelLeavesWholeUnits ==
    /\ [](pc = "cancelled" =>
            /\ wbuf = feed_units(path, <<>>, written)
            /\ Cardinality(Responses) = Len(consumed))
    /\ [][pc = "cancelled" => (written' = written /\ wbuf' = wbuf)]_vars

\* The bytes the reader gets when the editor handles the keys one by one from
\* the state ed and every completed line is delivered with its newline.
RECURSIVE TypedLines(_, _)
TypedLines(ed, keys) ==
    IF keys = <<>> THEN <<>>
    ELSE LET e == feed_key(ed, Head(keys))
         IN IF e.ret # <<>>
            THEN utf8_encode(e.ret[1] \o <<LF>>) \o TypedLines(FreshEditor, Tail(keys))
            ELSE TypedLines(e, Tail(keys))

Ascii(s) == \A i \in 1..Len(s) : s[i] \notin {B_C3, B_A9}

\* C19: every line completed with Enter is delivered to the reader once, as
\* its text and one newline, however the bytes are cut into chunks: also when
\* a chunk holds several Enter keys or bytes after an Enter.
C19_EveryLineDelivered ==
    (pending = <<>> /\ Ascii(sent)) => rbuf = TypedLines(FreshEditor, sent)

\* The text after the first n characters of the line.
After(n) == SubSeq(text, n + 1, Len(text))

\* C20: the line is cut at every single space, without quoting: the first
\* token is the name of the command and the others are its arguments, in
\* order and unchanged, an empty string for every space that follows a space
\* or ends the line.  So hello echoes all that follows 'hello ' as it is, help
\* takes an empty first argument as the name of no command, and a line that
\* starts with a space has the empty name and is answered as unknown.
C20_SplitOnEverySpace ==
    Dispatched =>
        /\ (shellClass = "Demo" /\ IsPrefix(S_hello \o <<SP>>, text)) =>
              Outcome.text = After(Len(S_hello) + 1)
        /\ (IsPrefix(S_help \o <<SP, SP>>, text) \/ text = S_help \o <<SP>>) =>
              (Outcome.invoked = <<S_help>> /\ Outcome.text = <<>>)
        /\ (text # <<>> /\ Head(text) = SP) =>
              /\ Outcome.kind = "return"
              /\ Outcome.invoked = <<>>
              /\ Outcome.text =
                    not_found \o Listing(InNameOrder(Commands(shellClass)))

\* 'hello  tutu', two spaces: the arguments are '' and 'tutu'.
C20_Witness ==
    /\ Dispatched
    /\ shellClass = "Demo"
    /\ text = S_hello \o <<SP, SP>> \o S_tutu
    /\ Outcome.text = <<SP>> \o S_tutu

Listed == cmds # <<>>

CommandList == cmds[1]

\* The lines zero-argument help prints for the pairs cs, in their order.
RECURSIVE PairLines(_)
PairLines(cs) ==
    IF cs = <<>> THEN <<>>
    ELSE Head(cs)[1]
         \o (IF Head(cs)[2] = <<>> THEN <<>>
             ELSE <<":", SP>> \o firstLine(Head(cs)[2]))
         \o <<LF>> \o PairLines(Tail(cs))

\* The pairs get_commands() returns name the commands zero-argument help
\* lists, in the order of its lines; run and the names starting with '_' are
\* not among them and help is.
SameCommandsAsHelp ==
    /\ help(shellClass, <<>>) = help_header \o PairLines(CommandList) \o help_trailer
    /\ \A i \in 1..Len(CommandList) :
          /\ CommandList[i][1] # S_run
          /\ Head(CommandList[i][1]) # "_"
          /\ \A j \in 1..Len(CommandList) : i # j => CommandList[i][1] # CommandList[j][1]
    /\ \E i \in 1..Len(CommandList) : CommandList[i][1] = S_help
    /\ Len(CommandList) = Cardinality(Commands(shellClass))

\* C21 as stated: get_commands() returns the pairs (name, doc) of the
\* commands zero-argument help lists, in the same order, without run and the
\* names starting with '_' and with help, the doc of each pair being the
\* first line of the command's doc.
C21_CommandsWithShortDoc ==
    Listed =>
        /\ SameCommandsAsHelp
        /\ \A i \in 1..Len(CommandList) :
              \E m \in Commands(shellClass) :
                  CommandList[i] = <<m.name, firstLine(m.doc)>>

\* C21 amended: get_commands() returns the pairs (name, doc) of the commands
\* zero-argument help lists, in the same order, without run and the names
\* starting with '_' and with help, the doc of each pair being the whole doc
\* of the command (inspect.getdoc), all its lines.
C21_CommandsWithFullDoc ==
    Listed =>
        /\ SameCommandsAsHelp
        /\ \A i \in 1..Len(CommandList) :
              \E m \in Commands(shellClass) :
                  CommandList[i] = <<m.name, m.doc>>

\* Demo: hello comes before help and carries its doc of three lines.
C21_Witness ==
    /\ Listed
    /\ shellClass = "Demo"
    /\ CommandList = << <<S_hello, hello_doc>>, <<S_help, help_doc>> >>
    /\ firstLine(hello_doc) # hello_doc

============================================================================
